---- MODULE Spec2Model ----
(***************************************************************************)
(* image2nord: the event handlers of src/main.rs (new-attachment           *)
(* announcement, darken / delete / clear / stop control presses) and the   *)
(* shared ImageCache, as a state machine.  Every handler task advances    *)
(* one suspension point (.await) at a time; the synchronous code between   *)
(* two suspension points belongs to the step of the first one.            *)
(***************************************************************************)
EXTENDS Integers, Sequences, FiniteSets, TLC

(***************************************************************************)
(* Text.  Strings are sequences of one-character strings so that          *)
(* starts_with, split and parse are computed as the code computes them.    *)
(***************************************************************************)
Dash == "-"

Digits == {"0", "1", "2", "3", "4", "5", "6", "7", "8", "9"}

HexDigits == Digits \cup {"a", "b", "c", "d", "e", "f", "A", "B", "C", "D", "E", "F"}

S_darken == <<"d", "a", "r", "k", "e", "n">>
S_delete == <<"d", "e", "l", "e", "t", "e">>
S_clear == <<"c", "l", "e", "a", "r">>
S_stop == <<"s", "t", "o", "p">>
S_true == <<"t", "r", "u", "e">>
S_false == <<"f", "a", "l", "s", "e">>
S_none == <<"n", "o", "n", "e">>
S_image_slash == <<"i", "m", "a", "g", "e", "/">>
S_png == <<"p", "n", "g">>
S_abc == <<"a", "b", "c">>
S_ask_hex == <<"0", "0", "0", "0", "0", "1">>
S_grey_hex == <<"2", "0", "2", "0", "2", "0">>

\* str::starts_with
StartsWith(s, p) == Len(s) >= Len(p) /\ SubSeq(s, 1, Len(p)) = p

\* str::split("-"), collected: the segments between the delimiters; a string
\* without delimiter is one segment, an empty string one empty segment.
RECURSIVE Split(_)
Split(s) ==
    IF \A i \in 1..Len(s) : s[i] # Dash
    THEN <<s>>
    ELSE LET i == CHOOSE k \in 1..Len(s) :
                      s[k] = Dash /\ \A j \in 1..(k - 1) : s[j] # Dash
         IN <<SubSeq(s, 1, i - 1)>> \o Split(SubSeq(s, i + 1, Len(s)))

\* format!-style concatenation of segments with the delimiter between them
RECURSIVE Join(_)
Join(segs) ==
    IF Len(segs) = 0 THEN <<>>
    ELSE IF Len(segs) = 1 THEN segs[1]
    ELSE segs[1] \o <<Dash>> \o Join(Tail(segs))

DigitVal(c) ==
    CASE c = "0" -> 0 [] c = "1" -> 1 [] c = "2" -> 2 [] c = "3" -> 3
      [] c = "4" -> 4 [] c = "5" -> 5 [] c = "6" -> 6 [] c = "7" -> 7
      [] c = "8" -> 8 [] c = "9" -> 9

RECURSIVE DecimalVal(_)
DecimalVal(s) ==
    IF Len(s) = 0 THEN 0
    ELSE 10 * DecimalVal(SubSeq(s, 1, Len(s) - 1)) + DigitVal(s[Len(s)])

\* str::parse::<u64>: an optional leading '+', then at least one decimal
\* digit and nothing else.  (Inputs of this model have at most three digits,
\* far below u64::MAX, so the overflow error is not exercised.)
ParseU64(s) ==
    LET body == IF Len(s) > 0 /\ s[1] = "+" THEN Tail(s) ELSE s
    IN IF Len(body) > 0 /\ \A i \in 1..Len(body) : body[i] \in Digits
       THEN [ok |-> TRUE, val |-> DecimalVal(body)]
       ELSE [ok |-> FALSE, val |-> 0]

HexVal(c) ==
    CASE c \in Digits -> DigitVal(c)
      [] c \in {"a", "A"} -> 10 [] c \in {"b", "B"} -> 11
      [] c \in {"c", "C"} -> 12 [] c \in {"d", "D"} -> 13
      [] c \in {"e", "E"} -> 14 [] c \in {"f", "F"} -> 15

NoColor == [some |-> FALSE, rgb |-> <<0, 0, 0>>]

SomeColor(r, g, b) == [some |-> TRUE, rgb |-> <<r, g, b>>]

\* RgbColor::from_hex: "#RRGGBB" or "RRGGBB"; an error on a wrong length or a
\* character that is no hex digit.
RgbFromHex(s) ==
    LET body == IF Len(s) > 0 /\ s[1] = "#" THEN Tail(s) ELSE s
    IN IF Len(body) = 6 /\ \A i \in 1..6 : body[i] \in HexDigits
       THEN [ok |-> TRUE,
             color |-> SomeColor(16 * HexVal(body[1]) + HexVal(body[2]),
                                 16 * HexVal(body[3]) + HexVal(body[4]),
                                 16 * HexVal(body[5]) + HexVal(body[6]))]
       ELSE [ok |-> FALSE, color |-> NoColor]

\* RgbColor::from_hex("000001").unwrap(): the "ask for a background" sentinel
AskSentinel == RgbFromHex(S_ask_hex).color

(***************************************************************************)
(* Attachments and messages of the channel.                                *)
(***************************************************************************)
MiB == 1024 * 1024

NoContentType == [some |-> FALSE, val |-> <<>>]

ContentType(s) == [some |-> TRUE, val |-> s]

Urls == {"u1", "u2"}

Att(size, ct, url) == [size |-> size, content_type |-> ct, url |-> url]

AttSmallPng == Att(1000, ContentType(S_image_slash \o S_png), "u1")
AttExactly16 == Att(16 * MiB, ContentType(S_image_slash), "u2")
AttJustOver == Att(16 * MiB + 1, ContentType(S_image_slash \o S_png), "u1")
AttTwentyMiB == Att(20 * MiB, ContentType(S_image_slash \o S_png), "u2")
AttNoType == Att(1000, NoContentType, "u1")
AttText == Att(1000, ContentType(<<"t", "e", "x", "t", "/", "x">>), "u2")
AttShortType == Att(1000, ContentType(<<"i", "m", "a", "g", "e">>), "u1")
AttInfixType == Att(1000, ContentType(<<"x">> \o S_image_slash), "u2")

Attachments ==
    {AttSmallPng, AttExactly16, AttJustOver, AttTwentyMiB, AttNoType, AttText,
     AttShortType, AttInfixType}

Msg(bot, atts) == [author_bot |-> bot, attachments |-> atts]

\* The messages of the channel, by id.  Message 4 is authored by a bot.
Messages ==
    <<Msg(FALSE, <<AttSmallPng>>),
      Msg(FALSE, <<AttExactly16, AttJustOver>>),
      Msg(FALSE, <<AttText, AttSmallPng>>),
      Msg(TRUE, <<AttSmallPng>>),
      Msg(FALSE, <<AttNoType>>),
      Msg(FALSE, <<AttTwentyMiB>>),
      Msg(FALSE, <<AttShortType>>),
      Msg(FALSE, <<AttInfixType>>),
      Msg(FALSE, <<>>)>>

MsgIds == 1..Len(Messages)

\* image_check: Ok(()) (TRUE) or an error (FALSE).  size is a u32 and
\* size as f64 / 1024.0 / 1024.0 is exact, so mib > 16.0 compares the bytes.
image_check_SizeInclusive(attachment) ==
    IF attachment.size >= 16 * MiB THEN FALSE
    ELSE IF ~attachment.content_type.some THEN FALSE
    ELSE IF ~StartsWith(attachment.content_type.val, S_image_slash) THEN FALSE
    ELSE TRUE

image_check(attachment) ==
    IF attachment.size > 16 * MiB THEN FALSE
    ELSE IF ~attachment.content_type.some THEN FALSE
    ELSE IF ~StartsWith(attachment.content_type.val, S_image_slash) THEN FALSE
    ELSE TRUE

(***************************************************************************)
(* ImageCache: an LruCache with an expiry duration and a capacity behind   *)
(* an RwLock.  The cache is a sequence of entries, least recently used     *)
(* first; each entry carries the time of its last insert or get.           *)
(***************************************************************************)
CacheCapacity == 20

CacheTtl == 600

\* A decoded image (its source and its mean luma, in percent) and the
\* ImageInformation measured from it.
Image(url, lum) == [src |-> url, lum |-> lum]

Value(image, average) == [image |-> image, average |-> average]

NoValue == Value(Image("", 0), 0)

\* colors::calculate_average_brightness
calculate_average_brightness(image) == image.lum

\* `at` is the timestamp the LruCache keeps with the value; `born` is the
\* time of the insert that put the value there, which the cache does not keep
\* and which no operation reads.
Entry(key, val, at, born) == [key |-> key, val |-> val, at |-> at, born |-> born]

CacheKeys(c) == {c[i].key : i \in 1..Len(c)}

RECURSIVE RemoveExpired(_, _, _)
RemoveExpired(c, ttl, t) ==
    IF Len(c) > 0 /\ c[1].at + ttl < t THEN RemoveExpired(Tail(c), ttl, t) ELSE c

RemoveKey(c, key) == SelectSeq(c, LAMBDA e : e.key # key)

CacheLookup(c, key) == (CHOOSE i \in 1..Len(c) : c[i].key = key)

\* An insert that leaves the value of a key the cache already holds
LruInsert_KeepsOld(c, cap, ttl, t, key, val) ==
    LET live == RemoveExpired(c, ttl, t)
        room == IF key \notin CacheKeys(live) /\ Len(live) >= cap
                THEN Tail(live) ELSE live
        old == IF key \in CacheKeys(live) THEN live[CacheLookup(live, key)].val ELSE val
    IN Append(RemoveKey(room, key), Entry(key, old, t, t))

\* An insert that adds its entry without removing the one the key had
LruInsert_Appends(c, cap, ttl, t, key, val) ==
    LET live == RemoveExpired(c, ttl, t)
        room == IF key \notin CacheKeys(live) /\ Len(live) >= cap
                THEN Tail(live) ELSE live
    IN Append(room, Entry(key, val, t, t))

\* LruCache::insert at time t
LruInsert(c, cap, ttl, t, key, val) ==
    LET live == RemoveExpired(c, ttl, t)
        room == IF key \notin CacheKeys(live) /\ Len(live) >= cap
                THEN Tail(live) ELSE live
    IN Append(RemoveKey(room, key), Entry(key, val, t, t))

\* A get that returns the entry without making it the most recently used
LruGet_KeepsPlace(c, ttl, t, key) ==
    LET live == RemoveExpired(c, ttl, t)
    IN IF key \in CacheKeys(live)
       THEN LET e == live[CacheLookup(live, key)]
            IN [cache |-> [i \in 1..Len(live) |->
                              IF live[i].key = key
                              THEN Entry(key, e.val, t, e.born) ELSE live[i]],
                hit |-> TRUE, val |-> e.val]
       ELSE [cache |-> live, hit |-> FALSE, val |-> NoValue]

\* LruCache::get at time t: the cache after the call, and the value found
LruGet(c, ttl, t, key) ==
    LET live == RemoveExpired(c, ttl, t)
    IN IF key \in CacheKeys(live)
       THEN LET e == live[CacheLookup(live, key)]
            IN [cache |-> Append(RemoveKey(live, key), Entry(key, e.val, t, e.born)),
                hit |-> TRUE, val |-> e.val]
       ELSE [cache |-> live, hit |-> FALSE, val |-> NoValue]

(***************************************************************************)
(* NordOptions and the control token (custom_id).                          *)
(***************************************************************************)
Options(start, auto, bg, intensity) ==
    [start |-> start, auto_adjust |-> auto, background_color |-> bg,
     intensity |-> intensity]

\* NordOptions::new()
DefaultOptions == Options(FALSE, FALSE, NoColor, 0)

\* NordOptions::from_custom_id: action-apply-auto-background-id.  A missing
\* or garbled field keeps its default; the last segment is the id and no
\* option field.
from_custom_id(content) ==
    LET segs == Split(content)
        n == Len(segs)
        hex == IF n >= 5 THEN RgbFromHex(segs[4]) ELSE [ok |-> FALSE, color |-> NoColor]
    IN Options(n >= 3 /\ segs[2] = S_true,
               n >= 4 /\ segs[3] = <<"1">>,
               IF hex.ok THEN hex.color ELSE NoColor,
               0)

\* NordOptions::from_image_information: the options recomputed from the
\* measured statistics of the image.
from_image_information(information) == Options(FALSE, TRUE, NoColor, information)

Flag(b) == IF b THEN <<"1">> ELSE <<"0">>

Bool(b) == IF b THEN S_true ELSE S_false

DarkenToken(start, auto, bg, id) == Join(<<S_darken, Bool(start), Flag(auto), bg, id>>)

\* The custom ids that reach interaction_create.
DarkenTokens ==
    {DarkenToken(st, au, bg, <<"1">>) :
        st \in BOOLEAN, au \in BOOLEAN, bg \in {S_none, S_ask_hex, S_grey_hex}}
    \cup {DarkenToken(st, au, S_none, <<"3">>) : st \in {TRUE}, au \in BOOLEAN}
    \cup {DarkenToken(TRUE, FALSE, S_none, <<"9">>),
          DarkenToken(TRUE, TRUE, S_none, <<"2">>),
          DarkenToken(TRUE, TRUE, S_none, <<"9">>),
          DarkenToken(FALSE, TRUE, S_ask_hex, <<"9">>),
          DarkenToken(TRUE, FALSE, S_none, <<"1", "2">>),
          DarkenToken(TRUE, FALSE, S_none, S_abc),
          DarkenToken(FALSE, FALSE, S_none, <<>>),
          DarkenToken(TRUE, FALSE, S_none, <<"1", "x">>),
          Join(<<S_darken, <<"3">>>>),
          Join(<<S_darken, S_abc, S_abc, S_abc, <<"1">>>>)}

OtherTokens ==
    {Join(<<S_delete, <<"1">>>>), Join(<<S_delete, <<"2">>>>),
     Join(<<S_delete, S_abc>>), Join(<<S_delete, <<>>>>),
     Join(<<S_clear, <<"1">>>>), Join(<<S_stop, <<"1">>>>),
     Join(<<S_abc, <<"1">>>>)}

Tokens == DarkenTokens \cup OtherTokens

\* What the user types into the colour modal.
ModalInputs ==
    {<<"#">> \o S_grey_hex, S_grey_hex, <<"#">> \o S_ask_hex,
     <<"z", "z", "z", "z", "z", "z">>, <<"2", "0", "2", "0", "2">>, <<>>}

(***************************************************************************)
(* State.                                                                  *)
(***************************************************************************)
\* config.threshold.brightness, in percent
Threshold == 40

\* The mean luma a downloaded image can have: below, at and above the threshold.
Lums == {Threshold - 1, Threshold, Threshold + 1}

\* The clock advances TickSeconds at a time, at most MaxTicks times.
TickSeconds == 301

MaxTicks == 2

\* CreateQuickModal::timeout, in seconds
ModalTimeout == 600

\* Handler tasks (one tokio task per inbound event): the task that handles
\* one event after the other, and a second task for an event that arrives
\* while the first is still being handled.
Tasks == {1, 2}

Handlers == {1}

VARIABLES
    task,   \* per handler task: its position, its locals and what it has done so far
    cache,  \* data.image_cache
    now,    \* the clock, in seconds
    alive   \* the ids of the channel's messages that still exist

vars == <<task, cache, now, alive>>

\* Stands for "no attachment" in the record of a step that concerns none.
NoAtt == Att(0, NoContentType, "")

\* One step a handler has taken: the operation, what it acted on, whether it
\* succeeded, and the attachment and mean luma it concerned.
LogEntry(op, on, ok, att, lum) ==
    [op |-> op, on |-> on, ok |-> ok, att |-> att, lum |-> lum]

\* The bot's message that carries the controls (interaction.message): its
\* text, its files and the options its controls encode.
Response(exists, content, files, shown, options) ==
    [exists |-> exists, content |-> content, files |-> files,
     shown |-> shown, options |-> options]

NoResponse == Response(FALSE, "", <<>>, FALSE, DefaultOptions)

OfferResponse == Response(TRUE, "offer", <<"scale.webp">>, TRUE, DefaultOptions)

IdleTask ==
    [pc |-> "idle", kind |-> "none", msg |-> 0, idx |-> 0, token |-> <<>>,
     options |-> DefaultOptions, message_id |-> 0, message |-> 0,
     cur |-> "component", since |-> 0, att |-> AttSmallPng, got |-> NoValue,
     resp |-> NoResponse, result |-> "none", log |-> <<>>, checked |-> <<>>,
     applied |-> <<>>, holds |-> FALSE]

Init ==
    /\ task = [t \in Tasks |-> IdleTask]
    /\ cache = <<>>
    /\ now = 0
    /\ alive = MsgIds

Logged(r, op, on, ok) ==
    [r EXCEPT !.log = Append(@, LogEntry(op, on, ok, NoAtt, 0))]

\* A step on the current attachment r.att
LoggedAtt(r, op, on, ok) ==
    [r EXCEPT !.log = Append(@, LogEntry(op, on, ok, r.att, r.got.average))]

\* The handler is over: "ok" and "err" are Ok and Err returned to the caller
\* of the handler, "panic" is the task unwinding.
Finish(r, res) == [r EXCEPT !.pc = "done", !.result = res]

Checked(r, att) ==
    [r EXCEPT !.log = Append(@, LogEntry("image_check", "cpu", image_check(att), att, 0)),
              !.checked = Append(@, [att |-> att, ok |-> image_check(att)])]

(***************************************************************************)
(* Steps shared by the handlers: the cache lookup and the download of      *)
(* fetch_image / fetch_image_and_info, and a request on an interaction.    *)
(***************************************************************************)
\* Task t goes on as r.
Becomes(t, r) == task' = [task EXCEPT ![t] = r]

\* The tasks that wait for the write lock of the cache: ImageCache::get and
\* ImageCache::insert both start with self.cache.write() and await it.
CacheWaitPcs == {"ask_get", "ask_insert", "dk_auto_get", "dk_proc_get"}

\* RwLock::write().await returns the guard once no other task holds one
cache_lock(t) ==
    /\ task[t].pc \in CacheWaitPcs
    /\ ~task[t].holds
    /\ \A s \in Tasks \ {t} : ~task[s].holds
    /\ Becomes(t, [task[t] EXCEPT !.holds = TRUE])
    /\ UNCHANGED <<cache, now, alive>>

\* ImageCache::get returning g to its caller with the guard still alive
CacheGot_KeepsGuard(r, g) ==
    [r EXCEPT !.log = Append(@, LogEntry("cache_get", "cache", g.hit, r.att, g.val.average)),
              !.got = IF g.hit THEN g.val ELSE @]

\* data.image_cache.get(&url).await for the current attachment has returned
\* g: the entry is cloned and the guard, a temporary of the expression, is
\* dropped before ImageCache::get returns.
CacheGot(r, g) ==
    [r EXCEPT !.log = Append(@, LogEntry("cache_get", "cache", g.hit, r.att, g.val.average)),
              !.got = IF g.hit THEN g.val ELSE @,
              !.holds = FALSE]

\* download_image(&attachment).await has failed.  This ends in a panic in
\* every caller: fetch_image unwraps it, ask_user_to_darken_image .expect()s
\* the result of fetch_image_and_info.
DownloadFailed(r) == Finish(LoggedAtt(r, "download", "net", FALSE), "panic")

\* download_image has returned an image of mean luma lum, which
\* calculate_average_brightness measures
Downloaded(r, lum) ==
    LET image == Image(r.att.url, lum)
        g == [r EXCEPT !.got = Value(image, calculate_average_brightness(image))]
    IN LoggedAtt(LoggedAtt(g, "download", "net", TRUE), "measure", "cpu", TRUE)

\* A request on interaction `on` has failed: the error is unwrapped at once,
\* or returned with ? and unwrapped by interaction_create.
RequestFailed(r, op, on) == Finish(Logged(r, op, on, FALSE), "panic")

Returned(r) == Finish(r, "ok")

(***************************************************************************)
(* event_handler, FullEvent::Message: ask_user_to_darken_image for every   *)
(* attachment of the message.                                              *)
(***************************************************************************)
\* The loop without the test of message.author.bot
MessageLoop_AnyAuthor(r) ==
    LET m == Messages[r.msg]
    IN IF r.idx > Len(m.attachments)
       THEN Finish(r, "ok")
       ELSE LET a == m.attachments[r.idx]
                c == Checked(r, a)
            IN IF ~image_check(a)
               THEN Finish(c, "err")
               ELSE [Checked(c, a) EXCEPT !.pc = "ask_get", !.att = a]

MessageLoop_FetchUnvalidated(r) ==
    LET m == Messages[r.msg]
    IN IF r.idx > Len(m.attachments) \/ m.author_bot
       THEN Finish(r, "ok")
       ELSE LET a == m.attachments[r.idx]
            IN [Checked(Checked(r, a), a) EXCEPT !.pc = "ask_get", !.att = a]

\* The loop of event_handler from attachment r.idx up to the first
\* suspension point of ask_user_to_darken_image: image_check at line 486
\* (its error is returned with ?) and again at line 461.
MessageLoop(r) ==
    LET m == Messages[r.msg]
    IN IF r.idx > Len(m.attachments) \/ m.author_bot
       THEN Finish(r, "ok")
       ELSE LET a == m.attachments[r.idx]
                c == Checked(r, a)
            IN IF ~image_check(a)
               THEN Finish(c, "err")
               ELSE [Checked(c, a) EXCEPT !.pc = "ask_get", !.att = a]

event_handler_Message(t, id) ==
    /\ task[t].pc = "idle"
    /\ id \in alive
    /\ task' = [task EXCEPT ![t] =
                  MessageLoop([IdleTask EXCEPT !.kind = "message", !.msg = id, !.idx = 1])]
    /\ UNCHANGED <<cache, now, alive>>

AskFetched(r) == [r EXCEPT !.pc = "ask_insert"]

\* fetch_image_and_info: data.image_cache.get(&url).await
ask_cache_get(t) ==
    LET g == LruGet(cache, CacheTtl, now, task[t].att.url)
        l == CacheGot(task[t], g)
    IN /\ task[t].pc = "ask_get"
       /\ task[t].holds
       /\ cache' = g.cache
       /\ Becomes(t, IF g.hit THEN AskFetched(l) ELSE [l EXCEPT !.pc = "ask_download"])
       /\ UNCHANGED <<now, alive>>

\* fetch_image_and_info: download_image(&attachment).await?
ask_download(t) ==
    /\ task[t].pc = "ask_download"
    /\ \/ Becomes(t, DownloadFailed(task[t]))
       \/ \E lum \in Lums : Becomes(t, AskFetched(Downloaded(task[t], lum)))
    /\ UNCHANGED <<cache, now, alive>>

BrightEnough_Strict(bright) == bright > Threshold

\* ask_user_to_darken_image, line 494: bright < threshold panics
BrightEnough(bright) == ~(bright < Threshold)

\* data.image_cache.insert(url, image, info).await, then the threshold test
\* (the scale image of lines 499-506 is taken to encode without error)
ask_cache_insert(t) ==
    LET r == task[t]
        l == [LoggedAtt(r, "cache_insert", "cache", TRUE) EXCEPT !.holds = FALSE]
    IN /\ r.pc = "ask_insert"
       /\ r.holds
       /\ cache' = LruInsert(cache, CacheCapacity, CacheTtl, now, r.att.url, r.got)
       /\ task' = [task EXCEPT ![t] =
                     IF BrightEnough(r.got.average) THEN [l EXCEPT !.pc = "ask_send"]
                     ELSE Finish(l, "panic")]
       /\ UNCHANGED <<now, alive>>

\* message.channel_id.send_message(&ctx, response).await?: the offer with
\* the darken control (default options) and the "No" control
ask_send_offer(t) ==
    LET r == task[t]
    IN /\ r.pc = "ask_send"
       /\ \/ task' = [task EXCEPT ![t] =
                        Finish(LoggedAtt(r, "send_offer", "channel", FALSE), "err")]
          \/ task' = [task EXCEPT ![t] =
                        MessageLoop([LoggedAtt(r, "send_offer", "channel", TRUE)
                                        EXCEPT !.idx = @ + 1, !.resp = OfferResponse])]
       /\ UNCHANGED <<cache, now, alive>>

(***************************************************************************)
(* interaction_create and handle_interaction_darkening.                    *)
(***************************************************************************)
\* message.attachments.first().unwrap() of line 212 or the loop entry of
\* process_attachments (either panics on a message without attachment),
\* then fetch_image up to its first suspension point:
\* image_check(attachment).await.unwrap().
EnterFetchImage(r, pcGet) ==
    LET atts == Messages[r.message].attachments
    IN IF Len(atts) = 0
       THEN Finish(r, "panic")
       ELSE LET c == Checked(r, atts[1])
            IN IF image_check(atts[1])
               THEN [c EXCEPT !.pc = pcGet, !.att = atts[1]]
               ELSE Finish(c, "panic")

\* Lines 217-225: with start set and no message fetched yet the subject
\* message is fetched next, otherwise the acknowledgment is sent next.
AfterAutoAdjust(r) ==
    IF r.options.start /\ r.message = 0
    THEN [r EXCEPT !.pc = "dk_start_fetch"]
    ELSE [r EXCEPT !.pc = "dk_ack"]

\* Lines 206-210
AfterBackground(r) ==
    IF r.options.auto_adjust
    THEN [r EXCEPT !.pc = "dk_auto_fetch"]
    ELSE AfterAutoAdjust(r)

\* Lines 185-193: the token is decoded; an id that does not parse makes the
\* handler return Err, which interaction_create unwraps at line 87.
DarkenStart(r) ==
    LET content == r.token
        options == from_custom_id(content)
        segs == Split(content)
        id == ParseU64(segs[Len(segs)])
        d == [r EXCEPT !.kind = "darken", !.options = options, !.message_id = id.val]
    IN IF ~id.ok THEN Finish(d, "panic")
       ELSE IF options.background_color = AskSentinel
       THEN [d EXCEPT !.pc = "dk_modal"]
       ELSE AfterBackground(d)

\* Line 90: content.split("-").last().unwrap().parse::<u64>().unwrap()
DisposeStart(r) ==
    LET segs == Split(r.token)
        id == ParseU64(segs[Len(segs)])
        d == [r EXCEPT !.kind = "delete", !.message_id = id.val]
    IN IF ~id.ok THEN Finish(d, "panic") ELSE [d EXCEPT !.pc = "clear_ack"]

\* interaction_create for a component interaction with custom id `token`,
\* up to the first suspension point of the handler it selects
interaction_create(t, token) ==
    LET r == [IdleTask EXCEPT !.token = token, !.resp = OfferResponse]
    IN /\ task[t].pc = "idle"
       /\ task' = [task EXCEPT ![t] =
            IF StartsWith(token, S_darken \o <<Dash>>) THEN DarkenStart(r)
            ELSE IF StartsWith(token, S_delete \o <<Dash>>) THEN DisposeStart(r)
            ELSE IF StartsWith(token, S_clear \o <<Dash>>)
                 THEN [r EXCEPT !.kind = "clear", !.pc = "clear_ack"]
            ELSE IF StartsWith(token, S_stop \o <<Dash>>)
                 THEN [r EXCEPT !.kind = "stop", !.pc = "stop_update"]
            ELSE Finish([r EXCEPT !.kind = "other"], "ok")]
       /\ UNCHANGED <<cache, now, alive>>

\* modal_get_color: interaction.quick_modal(ctx, modal).await? opens the
\* modal, which is the response to the component interaction; on an error
\* handle_interaction_darkening returns Ok(()) (line 200).
dk_modal_open(t) ==
    LET r == task[t]
    IN /\ r.pc = "dk_modal"
       /\ \/ task' = [task EXCEPT ![t] =
                        Finish(Logged(r, "modal_open", "component", FALSE), "ok")]
          \/ task' = [task EXCEPT ![t] =
                        [Logged(r, "modal_open", "component", TRUE)
                            EXCEPT !.pc = "dk_modal_wait", !.since = now]]
       /\ UNCHANGED <<cache, now, alive>>

\* quick_modal yields Ok(None) after the timeout; line 126 unwraps it.
ModalTimedOut(r) == Finish(Logged(r, "modal_timeout", "component", TRUE), "panic")

dk_modal_timeout(t) ==
    /\ task[t].pc = "dk_modal_wait"
    /\ now >= task[t].since + ModalTimeout
    /\ task' = [task EXCEPT ![t] = ModalTimedOut(task[t])]
    /\ UNCHANGED <<cache, now, alive>>

\* The user submits the modal: lines 127-131 and 196-205.
dk_modal_submit(t, input) ==
    LET r == task[t]
        hex == RgbFromHex(input)
        l == Logged(r, "modal_submit", "modal", hex.ok)
    IN /\ r.pc = "dk_modal_wait"
       /\ now < r.since + ModalTimeout
       /\ task' = [task EXCEPT ![t] =
                     IF hex.ok
                     THEN AfterBackground([l EXCEPT !.options.background_color = hex.color,
                                                    !.cur = "modal"])
                     ELSE [l EXCEPT !.pc = "dk_modal_error"]]
       /\ UNCHANGED <<cache, now, alive>>

ModalErrorSent_FallsThrough(r, sent) ==
    AfterBackground(Logged(r, "create_response_error", "modal", sent))

\* Lines 132-141 and 198-201: after the error response on the modal
\* interaction (sent or not) modal_get_color returns Err and
\* handle_interaction_darkening returns Ok(()).
ModalErrorSent(r, sent) ==
    Finish(Logged(r, "create_response_error", "modal", sent), "ok")

dk_modal_error(t) ==
    /\ task[t].pc = "dk_modal_error"
    /\ \E sent \in BOOLEAN : task' = [task EXCEPT ![t] = ModalErrorSent(task[t], sent)]
    /\ UNCHANGED <<cache, now, alive>>

\* fetch_or_raise_message: interaction.channel_id.message(&ctx, message_id)
\* has failed; the apology is sent next (lines 111-116).
MessageMissing(r) ==
    [Logged(r, "fetch_message", "channel", FALSE) EXCEPT !.pc = "dk_apology"]

\* ... or has returned the message
MessageFetched(r) ==
    [Logged(r, "fetch_message", "channel", TRUE) EXCEPT !.message = r.message_id]

AutoFetched(r) == EnterFetchImage(r, "dk_auto_get")

\* Line 210, then lines 211-212 up to the cache lookup of fetch_image
dk_auto_fetch(t) ==
    /\ task[t].pc = "dk_auto_fetch"
    /\ \/ Becomes(t, MessageMissing(task[t]))
       \/ /\ task[t].message_id \in alive
          /\ Becomes(t, AutoFetched(MessageFetched(task[t])))
    /\ UNCHANGED <<cache, now, alive>>

StartFetched(r) == [r EXCEPT !.pc = "dk_ack"]

\* Line 224
dk_start_fetch(t) ==
    /\ task[t].pc = "dk_start_fetch"
    /\ \/ Becomes(t, MessageMissing(task[t]))
       \/ /\ task[t].message_id \in alive
          /\ Becomes(t, StartFetched(MessageFetched(task[t])))
    /\ UNCHANGED <<cache, now, alive>>

\* fetch_or_raise_message, lines 111-118: the apology is sent with
\* create_response(..).await.unwrap(), then message.unwrap() panics.
SubjectGone(r, sent) ==
    Finish(Logged(r, "create_response_apology", "component", sent), "panic")

dk_apology(t) ==
    /\ task[t].pc = "dk_apology"
    /\ \E sent \in BOOLEAN : task' = [task EXCEPT ![t] = SubjectGone(task[t], sent)]
    /\ UNCHANGED <<cache, now, alive>>

\* An auto-adjust that carries the chosen background over as well
AutoAdjusted_KeepsBackground(r) ==
    AfterAutoAdjust([r EXCEPT !.options =
        [from_image_information(r.got.average)
            EXCEPT !.start = r.options.start,
                   !.background_color = r.options.background_color]])

\* Lines 213-214: the options recomputed from the information, start kept
AutoAdjusted(r) ==
    AfterAutoAdjust([r EXCEPT !.options =
        [from_image_information(r.got.average) EXCEPT !.start = r.options.start]])

dk_auto_get(t) ==
    LET g == LruGet(cache, CacheTtl, now, task[t].att.url)
        l == CacheGot(task[t], g)
    IN /\ task[t].pc = "dk_auto_get"
       /\ task[t].holds
       /\ cache' = g.cache
       /\ Becomes(t, IF g.hit THEN AutoAdjusted(l) ELSE [l EXCEPT !.pc = "dk_auto_download"])
       /\ UNCHANGED <<now, alive>>

dk_auto_download(t) ==
    /\ task[t].pc = "dk_auto_download"
    /\ \/ Becomes(t, DownloadFailed(task[t]))
       \/ \E lum \in Lums : Becomes(t, AutoAdjusted(Downloaded(task[t], lum)))
    /\ UNCHANGED <<cache, now, alive>>

Acked(r) == [r EXCEPT !.pc = "dk_edit"]

\* Lines 226-227 and 236-237: CreateInteractionResponse::Acknowledge on the
\* current interaction
dk_ack(t) ==
    /\ task[t].pc = "dk_ack"
    /\ \/ Becomes(t, RequestFailed(task[t], "create_response_ack", task[t].cur))
       \/ Becomes(t, Acked(Logged(task[t], "create_response_ack", task[t].cur, TRUE)))
    /\ UNCHANGED <<cache, now, alive>>

\* The bot's message of task t's flow is gone: the stop control of the same
\* message has been handled by another task, whose delete_response (line 99)
\* deleted it.  An edit_response on a deleted message is refused.
ResponseDeleted(t) ==
    \E s \in Tasks \ {t} :
        /\ task[s].kind = "stop"
        /\ ~task[s].resp.exists
        /\ Split(task[s].token)[Len(Split(task[s].token))] =
              Split(task[t].token)[Len(Split(task[t].token))]

AfterFirstEdit_WhenMessage(r) ==
    LET e == [r EXCEPT !.resp.content = IF r.options.start THEN "working" ELSE "changing",
                       !.resp.shown = TRUE, !.resp.options = r.options]
    IN IF r.message = 0
       THEN [e EXCEPT !.pc = "dk_edit_options"]
       ELSE EnterFetchImage(e, "dk_proc_get")

\* Lines 229-233 and 239-243 have edited the response: the files kept
\* (EditAttachments::keep_all), the waiting text, the new components.  Then
\* lines 246-263: without start the options edit follows; with start
\* process_attachments is entered (the message is Some whenever start is
\* set, so lines 255-260 are never reached).
AfterFirstEdit(r) ==
    LET e == [r EXCEPT !.resp.content = IF r.options.start THEN "working" ELSE "changing",
                       !.resp.shown = TRUE, !.resp.options = r.options]
    IN IF ~r.options.start
       THEN [e EXCEPT !.pc = "dk_edit_options"]
       ELSE EnterFetchImage(e, "dk_proc_get")

dk_edit(t) ==
    /\ task[t].pc = "dk_edit"
    /\ \/ Becomes(t, RequestFailed(task[t], "edit_response_wait", task[t].cur))
       \/ /\ ~ResponseDeleted(t)
          /\ Becomes(t, AfterFirstEdit(Logged(task[t], "edit_response_wait", task[t].cur, TRUE)))
    /\ UNCHANGED <<cache, now, alive>>

\* Lines 247-252: "Edited your options." and the components; the files are
\* not part of the edit.
OptionsEdited(r) ==
    Finish([r EXCEPT !.resp.content = "edited", !.resp.shown = TRUE,
                     !.resp.options = r.options], "ok")

dk_edit_options(t) ==
    /\ task[t].pc = "dk_edit_options"
    /\ \/ Becomes(t, RequestFailed(task[t], "edit_response_options", task[t].cur))
       \/ /\ ~ResponseDeleted(t)
          /\ Becomes(t, OptionsEdited(Logged(task[t], "edit_response_options", task[t].cur, TRUE)))
    /\ UNCHANGED <<cache, now, alive>>

\* process_image: colors::apply_nord(image, options, &info), then
\* process_attachments writes the result to the buffer (the WebP encoding
\* is taken to succeed).
Processed(r) ==
    [LoggedAtt(r, "apply_nord", "cpu", TRUE)
        EXCEPT !.applied = Append(@, r.options), !.pc = "dk_deliver"]

dk_proc_get(t) ==
    LET g == LruGet(cache, CacheTtl, now, task[t].att.url)
        l == CacheGot(task[t], g)
    IN /\ task[t].pc = "dk_proc_get"
       /\ task[t].holds
       /\ cache' = g.cache
       /\ Becomes(t, IF g.hit THEN Processed(l) ELSE [l EXCEPT !.pc = "dk_proc_download"])
       /\ UNCHANGED <<now, alive>>

dk_proc_download(t) ==
    /\ task[t].pc = "dk_proc_download"
    /\ \/ Becomes(t, DownloadFailed(task[t]))
       \/ \E lum \in Lums : Becomes(t, Processed(Downloaded(task[t], lum)))
    /\ UNCHANGED <<cache, now, alive>>

\* Lines 270-279: the edit that carries the rendered image; new_attachment
\* replaces the files of the response.
Delivered(r) ==
    Finish([r EXCEPT !.resp.content = "here", !.resp.files = <<"image.webp">>,
                     !.resp.shown = TRUE, !.resp.options = r.options], "ok")

dk_deliver(t) ==
    /\ task[t].pc = "dk_deliver"
    /\ \/ Becomes(t, RequestFailed(task[t], "edit_response_image", task[t].cur))
       \/ /\ ~ResponseDeleted(t)
          /\ Becomes(t, Delivered(Logged(task[t], "edit_response_image", task[t].cur, TRUE)))
    /\ UNCHANGED <<cache, now, alive>>

(***************************************************************************)
(* initial_clear_components, handle_dispose and the stop control.          *)
(***************************************************************************)
ClearAcked(r) == [r EXCEPT !.pc = "clear_edit"]

\* initial_clear_components, lines 301-302
clear_ack(t) ==
    /\ task[t].pc = "clear_ack"
    /\ \/ Becomes(t, RequestFailed(task[t], "create_response_ack", "component"))
       \/ Becomes(t, ClearAcked(Logged(task[t], "create_response_ack", "component", TRUE)))
    /\ UNCHANGED <<cache, now, alive>>

\* handle_dispose posting its follow-up without deleting the subject message
Cleared_SkipsDelete(r) ==
    LET e == [r EXCEPT !.resp.content = "", !.resp.shown = FALSE]
    IN IF r.kind = "delete" THEN [e EXCEPT !.pc = "dispose_followup"] ELSE Finish(e, "ok")

\* Lines 303-307: the text and the components are removed, the files kept;
\* handle_dispose goes on to delete the subject message.
Cleared(r) ==
    LET e == [r EXCEPT !.resp.content = "", !.resp.shown = FALSE]
    IN IF r.kind = "delete" THEN [e EXCEPT !.pc = "dispose_delete"] ELSE Finish(e, "ok")

clear_edit(t) ==
    /\ task[t].pc = "clear_edit"
    /\ \/ Becomes(t, RequestFailed(task[t], "edit_response_clear", "component"))
       \/ Becomes(t, Cleared(Logged(task[t], "edit_response_clear", "component", TRUE)))
    /\ UNCHANGED <<cache, now, alive>>

\* handle_dispose: interaction.channel_id.delete_message(&ctx, message_id).await?
dispose_delete(t) ==
    LET r == task[t]
    IN /\ r.pc = "dispose_delete"
       /\ \/ /\ task' = [task EXCEPT ![t] =
                           Finish(Logged(r, "delete_message", "channel", FALSE), "panic")]
             /\ alive' = alive
          \/ /\ r.message_id \in alive
             /\ task' = [task EXCEPT ![t] =
                           [Logged(r, "delete_message", "channel", TRUE)
                               EXCEPT !.pc = "dispose_followup"]]
             /\ alive' = alive \ {r.message_id}
       /\ UNCHANGED <<cache, now>>

\* Lines 315-320
dispose_followup(t) ==
    /\ task[t].pc = "dispose_followup"
    /\ \/ Becomes(t, RequestFailed(task[t], "create_followup", "component"))
       \/ Becomes(t, Returned(Logged(task[t], "create_followup", "component", TRUE)))
    /\ UNCHANGED <<cache, now, alive>>

StopUpdated(r) == [r EXCEPT !.pc = "stop_delete"]

\* Lines 96-98
stop_update(t) ==
    /\ task[t].pc = "stop_update"
    /\ \/ Becomes(t, RequestFailed(task[t], "create_response_update", "component"))
       \/ Becomes(t, StopUpdated(Logged(task[t], "create_response_update", "component", TRUE)))
    /\ UNCHANGED <<cache, now, alive>>

StopDeleted(r) == Finish([r EXCEPT !.resp.exists = FALSE], "ok")

\* Line 99
stop_delete(t) ==
    /\ task[t].pc = "stop_delete"
    /\ \/ Becomes(t, RequestFailed(task[t], "delete_response", "component"))
       \/ Becomes(t, StopDeleted(Logged(task[t], "delete_response", "component", TRUE)))
    /\ UNCHANGED <<cache, now, alive>>

(***************************************************************************)
(* Environment.                                                            *)
(***************************************************************************)
Tick ==
    /\ now + TickSeconds <= MaxTicks * TickSeconds
    /\ now' = now + TickSeconds
    /\ UNCHANGED <<task, cache, alive>>

\* The task of a handled event ends; another event can be delivered.
TaskEnds(t) ==
    /\ task[t].pc = "done"
    /\ task' = [task EXCEPT ![t] = IdleTask]
    /\ UNCHANGED <<cache, now, alive>>

Next ==
    \/ \E t \in Handlers, id \in MsgIds : event_handler_Message(t, id)
    \/ \E t \in Handlers : cache_lock(t)
    \/ \E t \in Handlers : ask_cache_get(t)
    \/ \E t \in Handlers : ask_download(t)
    \/ \E t \in Handlers : ask_cache_insert(t)
    \/ \E t \in Handlers : ask_send_offer(t)
    \/ \E t \in Handlers, token \in Tokens : interaction_create(t, token)
    \/ \E t \in Handlers : dk_modal_open(t)
    \/ \E t \in Handlers : dk_modal_timeout(t)
    \/ \E t \in Handlers, input \in ModalInputs : dk_modal_submit(t, input)
    \/ \E t \in Handlers : dk_modal_error(t)
    \/ \E t \in Handlers : dk_auto_fetch(t)
    \/ \E t \in Handlers : dk_auto_get(t)
    \/ \E t \in Handlers : dk_auto_download(t)
    \/ \E t \in Handlers : dk_start_fetch(t)
    \/ \E t \in Handlers : dk_apology(t)
    \/ \E t \in Handlers : dk_ack(t)
    \/ \E t \in Handlers : dk_edit(t)
    \/ \E t \in Handlers : dk_edit_options(t)
    \/ \E t \in Handlers : dk_proc_get(t)
    \/ \E t \in Handlers : dk_proc_download(t)
    \/ \E t \in Handlers : dk_deliver(t)
    \/ \E t \in Handlers : clear_ack(t)
    \/ \E t \in Handlers : clear_edit(t)
    \/ \E t \in Handlers : dispose_delete(t)
    \/ \E t \in Handlers : dispose_followup(t)
    \/ \E t \in Handlers : stop_update(t)
    \/ \E t \in Handlers : stop_delete(t)
    \/ \E t \in Handlers : TaskEnds(t)
    \/ Tick

Spec == Init /\ [][Next]_vars

(***************************************************************************)
(* Two events handled at the same time: two new-attachment events for the  *)
(* same attachment URL, or a press of the darken control of message 1 and  *)
(* a press of the stop control of the same bot message.                    *)
(***************************************************************************)
PairTokens ==
    {DarkenToken(TRUE, FALSE, S_none, <<"1">>),
     DarkenToken(TRUE, TRUE, S_ask_hex, <<"1">>)}

PairInputs == {<<"#">> \o S_grey_hex}

StopToken == Join(<<S_stop, <<"1">>>>)

NextPair ==
    \/ \E t \in Tasks : event_handler_Message(t, 1)
    \/ \E token \in PairTokens : interaction_create(1, token)
    \/ interaction_create(2, StopToken)
    \/ \E t \in Tasks : cache_lock(t)
    \/ \E t \in Tasks : ask_cache_get(t)
    \/ \E t \in Tasks : ask_download(t)
    \/ \E t \in Tasks : ask_cache_insert(t)
    \/ \E t \in Tasks : ask_send_offer(t)
    \/ \E t \in Tasks : dk_modal_open(t)
    \/ \E t \in Tasks, input \in PairInputs : dk_modal_submit(t, input)
    \/ \E t \in Tasks : dk_auto_fetch(t)
    \/ \E t \in Tasks : dk_auto_get(t)
    \/ \E t \in Tasks : dk_auto_download(t)
    \/ \E t \in Tasks : dk_start_fetch(t)
    \/ \E t \in Tasks : dk_apology(t)
    \/ \E t \in Tasks : dk_ack(t)
    \/ \E t \in Tasks : dk_edit(t)
    \/ \E t \in Tasks : dk_proc_get(t)
    \/ \E t \in Tasks : dk_proc_download(t)
    \/ \E t \in Tasks : dk_deliver(t)
    \/ \E t \in Tasks : stop_update(t)
    \/ \E t \in Tasks : stop_delete(t)

SpecPair == Init /\ [][NextPair]_vars

(***************************************************************************)
(* The ImageCache on its own: one caller after the other inserts and gets  *)
(* while the clock runs.  The cache starts one entry short of its capacity *)
(* (the entries inserted one per second), every call takes a second, and   *)
(* task 1 records the last call and what it returned.                      *)
(***************************************************************************)
UrlNames ==
    << "u1", "u2", "u3", "u4", "u5", "u6", "u7", "u8", "u9", "u10",
       "u11", "u12", "u13", "u14", "u15", "u16", "u17", "u18", "u19",
       "u20", "u21" >>

MaxOps == 4

Prefilled == CacheCapacity - 1

OpKeys == {UrlNames[1], UrlNames[CacheCapacity], UrlNames[CacheCapacity + 1]}

OpLums == {Threshold, Threshold + 1}

InitCache ==
    /\ task = [t \in Tasks |-> IdleTask]
    /\ cache = [i \in 1..Prefilled |->
                  Entry(UrlNames[i], Value(Image(UrlNames[i], Threshold), Threshold), i, i)]
    /\ now = Prefilled
    /\ alive = MsgIds

\* The calls made so far
OpsDone == (now - Prefilled) % TickSeconds

\* ImageCache::insert(key, image, info).await
ImageCache_insert(key, lum) ==
    LET value == Value(Image(key, lum), calculate_average_brightness(Image(key, lum)))
    IN /\ OpsDone < MaxOps
       /\ cache' = LruInsert(cache, CacheCapacity, CacheTtl, now, key, value)
       /\ now' = now + 1
       /\ task' = [task EXCEPT ![1] =
                     [IdleTask EXCEPT !.got = value,
                         !.log = <<LogEntry("cache_insert", "cache", TRUE,
                                            Att(0, NoContentType, key), lum)>>]]
       /\ UNCHANGED alive

\* ImageCache::get(&key).await
ImageCache_get(key) ==
    LET g == LruGet(cache, CacheTtl, now, key)
    IN /\ OpsDone < MaxOps
       /\ cache' = g.cache
       /\ now' = now + 1
       /\ task' = [task EXCEPT ![1] =
                     [IdleTask EXCEPT !.got = g.val,
                         !.log = <<LogEntry("cache_get", "cache", g.hit,
                                            Att(0, NoContentType, key), g.val.average)>>]]
       /\ UNCHANGED alive

\* Time passes between two calls.
CacheIdle ==
    /\ now + TickSeconds <= Prefilled + MaxTicks * TickSeconds + OpsDone
    /\ now' = now + TickSeconds
    /\ UNCHANGED <<task, cache, alive>>

NextCache ==
    \/ \E key \in OpKeys, lum \in OpLums : ImageCache_insert(key, lum)
    \/ \E key \in OpKeys : ImageCache_get(key)
    \/ CacheIdle

SpecCache == InitCache /\ [][NextCache]_vars

(***************************************************************************)
(* Properties.                                                             *)
(***************************************************************************)
HasOp(r, op) == \E i \in 1..Len(r.log) : r.log[i].op = op

HasFailed(r, op) == \E i \in 1..Len(r.log) : r.log[i].op = op /\ ~r.log[i].ok

CountOp(r, op) == Cardinality({i \in 1..Len(r.log) : r.log[i].op = op})

LastSegment(s) == Split(s)[Len(Split(s))]

\* C1: the new-attachment handler never ends in a panic, whatever the
\* attachment and the outcome of the transport (validation failure, download
\* or decode failure, brightness below the threshold).
C1_NewAttachmentNeverPanics ==
    \A t \in Tasks : task[t].kind = "message" => task[t].result # "panic"

\* C2: a darken- or delete- token whose last segment is no integer id never
\* makes interaction_create panic.
C2_MalformedIdNeverPanics ==
    \A t \in Tasks :
        (/\ task[t].kind \in {"darken", "delete"}
         /\ ~ParseU64(LastSegment(task[t].token)).ok)
        => task[t].result # "panic"

\* C3: when the subject message cannot be fetched in the darken flow, the
\* handler returns normally: neither an error nor a panic goes upward, and
\* no transform is run.
C3_SubjectGoneReturnsNormally ==
    \A t \in Tasks :
        (task[t].kind = "darken" /\ HasFailed(task[t], "fetch_message"))
        => /\ task[t].result \notin {"panic", "err"}
           /\ task[t].applied = <<>>

\* The attachments C4 names: larger than 16 MiB (16777216 bytes), without
\* content type, or with a content type that does not begin with "image/".
C4_Rejects(a) ==
    \/ a.size > 16777216
    \/ ~a.content_type.some
    \/ Len(a.content_type.val) < 6
    \/ \E i \in 1..6 : a.content_type.val[i] # <<"i", "m", "a", "g", "e", "/">>[i]

\* C4: image_check rejects an attachment exactly when its size exceeds
\* 16 MiB, or it has no content type, or its content type does not begin
\* with "image/" (exactly 16 MiB with an image/ type is accepted); a
\* rejection ends the handler at once, with no further step.
C4_RejectedExactlyWhen ==
    \A t \in Tasks :
        LET r == task[t]
        IN \A i \in 1..Len(r.checked) :
             /\ r.checked[i].ok = ~C4_Rejects(r.checked[i].att)
             /\ ~r.checked[i].ok =>
                  /\ i = Len(r.checked)
                  /\ r.pc = "done" /\ r.result \in {"err", "panic"}
                  /\ r.log[Len(r.log)].op = "image_check"

C4_Witness ==
    \E t \in Tasks :
        \E i, j \in 1..Len(task[t].checked) :
            /\ task[t].checked[i] = [att |-> AttExactly16, ok |-> TRUE]
            /\ task[t].checked[j] = [att |-> AttJustOver, ok |-> FALSE]

FetchOps == {"cache_get", "download", "measure", "cache_insert"}

\* C5: a cache lookup, a download or a cache insertion for an attachment
\* happens only after image_check has accepted that attachment, on every
\* handler path; an attachment that fails image_check causes none of them.
C5_ValidationPrecedesFetch ==
    \A t \in Tasks :
        LET log == task[t].log
        IN \A j \in 1..Len(log) :
             log[j].op \in FetchOps =>
                /\ \E i \in 1..(j - 1) :
                     log[i].op = "image_check" /\ log[i].att = log[j].att /\ log[i].ok
                /\ \A i \in 1..Len(log) :
                     (log[i].op = "image_check" /\ log[i].att = log[j].att) => log[i].ok

C5_Witness ==
    \E t \in Tasks :
        /\ task[t].kind = "darken" /\ task[t].message = 3
        /\ HasOp(task[t], "edit_response_wait")
        /\ task[t].log[Len(task[t].log)] = LogEntry("image_check", "cpu", FALSE, AttText, 0)
        /\ task[t].pc = "done"

\* The attachment inserted by log entry j of r is offered: the offer is the
\* next step taken, or the handler is about to send it.
C6_Offered(r, j) ==
    \/ j < Len(r.log) /\ r.log[j + 1].op = "send_offer" /\ r.log[j + 1].att = r.log[j].att
    \/ j = Len(r.log) /\ r.pc = "ask_send"

\* C6 as stated: the offer is posted for a validated, fetched attachment if
\* and only if its measured brightness exceeds the threshold; at or below
\* the threshold there is no offer.
C6_OfferIffAboveThreshold ==
    \A t \in Tasks :
        LET r == task[t]
        IN r.kind = "message" =>
             \A j \in 1..Len(r.log) :
                r.log[j].op = "cache_insert" =>
                   (C6_Offered(r, j) <=> r.log[j].lum > Threshold)

\* C6, amended: the offer is sent for a validated, fetched attachment if and
\* only if its measured brightness is not below the threshold; an attachment
\* exactly at the threshold is offered, one below it is not, and an offer is
\* sent for nothing else.
C6_OfferIffNotBelowThreshold ==
    \A t \in Tasks :
        LET r == task[t]
        IN /\ r.kind = "message" =>
                \A j \in 1..Len(r.log) :
                   r.log[j].op = "cache_insert" =>
                      (C6_Offered(r, j) <=> r.log[j].lum >= Threshold)
           /\ \A j \in 1..Len(r.log) :
                r.log[j].op = "send_offer" =>
                   /\ r.kind = "message" /\ j > 1
                   /\ r.log[j - 1].op = "cache_insert"
                   /\ r.log[j - 1].att = r.log[j].att
                   /\ r.log[j].lum >= Threshold

C6_Witness ==
    \E t \in Tasks :
        \E j \in 1..Len(task[t].log) :
            /\ task[t].log[j].op = "send_offer" /\ task[t].log[j].ok
            /\ task[t].log[j].lum = Threshold
            /\ task[t].resp = OfferResponse

SlowOps == {"fetch_message", "download", "measure", "apply_nord"}

\* C7: in a darken press whose decoded apply flag is true, no subject-message
\* fetch, download, measurement or transform happens before the
\* acknowledgment of the interaction.
C7_AckBeforeSlowWork ==
    \A t \in Tasks :
        LET r == task[t]
        IN (r.kind = "darken" /\ from_custom_id(r.token).start) =>
              \A j \in 1..Len(r.log) :
                 r.log[j].op \in SlowOps =>
                    \E i \in 1..(j - 1) : r.log[i].op = "create_response_ack"

\* C8: the transform and the upload of a rendered image happen in a darken
\* press only if the decoded apply flag is true; with the flag false the
\* handler re-renders the controls with the updated options and a status
\* line, keeps the files of the response, runs no transform, and returns.
C8_TransformOnlyWhenStart ==
    \A t \in Tasks :
        LET r == task[t]
            start == from_custom_id(r.token).start
        IN r.kind = "darken" =>
             /\ (HasOp(r, "apply_nord") \/ HasOp(r, "edit_response_image")) => start
             /\ ~start =>
                  /\ r.applied = <<>>
                  /\ r.resp.files = OfferResponse.files
                  /\ r.pc # "dk_proc_get" /\ r.pc # "dk_proc_download" /\ r.pc # "dk_deliver"
                  /\ (HasOp(r, "edit_response_wait") /\ r.log[Len(r.log)].ok) =>
                        /\ r.resp.shown /\ r.resp.options = r.options
                        /\ r.resp.content \in {"changing", "edited"}
                        /\ r.pc \in {"dk_edit_options", "done"}
                        /\ r.pc = "done" =>
                              /\ r.result = "ok"
                              /\ r.resp.content = "edited"
                              /\ r.log[Len(r.log)].op = "edit_response_options"

C8_Witness ==
    \E t \in Tasks :
        /\ task[t].kind = "darken" /\ ~from_custom_id(task[t].token).start
        /\ task[t].pc = "done" /\ task[t].result = "ok"
        /\ task[t].message = 1
        /\ task[t].resp.content = "edited"
        /\ task[t].resp.options.auto_adjust

\* C9: when the modal submission is no valid 6-hex-digit color, exactly one
\* error response is sent on the modal interaction and the darken handler
\* returns without fetching the subject message, without a cache access,
\* without the transform and without editing the response.
C9_InvalidColorAborts ==
    \A t \in Tasks :
        LET r == task[t]
        IN HasFailed(r, "modal_submit") =>
             /\ \A j \in 1..Len(r.log) :
                  r.log[j].op \in {"modal_open", "modal_submit", "create_response_error"}
             /\ r.pc \in {"dk_modal_error", "done"}
             /\ r.resp = OfferResponse /\ r.applied = <<>> /\ r.message = 0
             /\ r.pc = "done" =>
                  /\ r.result = "ok"
                  /\ CountOp(r, "create_response_error") = 1
                  /\ r.log[Len(r.log)].on = "modal"

C9_Witness ==
    \E t \in Tasks :
        /\ HasFailed(task[t], "modal_submit")
        /\ task[t].pc = "done"
        /\ task[t].log[Len(task[t].log)] =
              LogEntry("create_response_error", "modal", TRUE, NoAtt, 0)
        /\ from_custom_id(task[t].token).auto_adjust
        /\ cache # <<>>

\* C10: when the background-color modal times out with no submission, the
\* darken handler returns normally: no panic, no further response or edit,
\* no transform.
C10_ModalTimeoutAbandonsCleanly ==
    \A t \in Tasks :
        LET r == task[t]
        IN HasOp(r, "modal_timeout") =>
             /\ r.result = "ok"
             /\ r.log[Len(r.log)].op = "modal_timeout"
             /\ r.applied = <<>> /\ r.resp = OfferResponse

\* C11: the transform is never invoked with the ask sentinel #000001 as its
\* background, whatever the user submits in the modal: the background of
\* every apply_nord call is absent or a color different from the sentinel.
C11_TransformNeverGetsSentinel ==
    \A t \in Tasks :
        \A i \in 1..Len(task[t].applied) :
            task[t].applied[i].background_color # AskSentinel

\* C12: the subject message is deleted only by a press of the delete control
\* that carries its id: a step that removes a message from the channel is the
\* delete_message of a delete- handler whose custom id ends in that id, and no
\* darken, clear, stop or new-attachment handler removes one; the confirmation
\* follow-up is posted only right after that deletion succeeded.
C12_DeletedOnlyByDispose ==
    /\ [][\A id \in alive \ alive' :
            \E t \in Tasks :
                /\ task[t].kind = "delete"
                /\ StartsWith(task[t].token, S_delete \o <<Dash>>)
                /\ ParseU64(LastSegment(task[t].token)) = [ok |-> TRUE, val |-> id]
                /\ task'[t].log =
                      Append(task[t].log,
                             LogEntry("delete_message", "channel", TRUE, NoAtt, 0))]_vars
    /\ [](\A t \in Tasks :
            \A i \in 1..Len(task[t].log) :
                task[t].log[i].op = "create_followup" =>
                    /\ task[t].kind = "delete"
                    /\ i > 1
                    /\ task[t].log[i - 1] =
                          LogEntry("delete_message", "channel", TRUE, NoAtt, 0)
                    /\ task[t].message_id \notin alive)

C12_Witness ==
    \E t \in Tasks :
        /\ task[t].kind = "delete" /\ task[t].pc = "done" /\ task[t].result = "ok"
        /\ task[t].log[Len(task[t].log)] =
              LogEntry("create_followup", "component", TRUE, NoAtt, 0)
        /\ alive = MsgIds \ {1}

FlowOps == {"edit_response_wait", "edit_response_options", "edit_response_image", "apply_nord"}

\* The stop control of the bot message of task t's flow has been handled.
StopHandled(t) ==
    \E s \in Tasks \ {t} :
        /\ task[s].kind = "stop" /\ task[s].pc = "done" /\ task[s].result = "ok"
        /\ LastSegment(task[s].token) = LastSegment(task[t].token)

\* C13: a press of the stop control terminates the flow, also while a modal
\* prompt or an apply run of the same flow is in progress: once the stop is
\* handled, the darken handler of that flow requests no edit of the response
\* and runs no transform; and no step of the stop handler changes the cache
\* or the set of existing messages.
C13_StopTerminatesFlow ==
    /\ [][\A t \in Tasks :
            (task[t].kind = "darken" /\ StopHandled(t)) =>
                \A i \in (Len(task[t].log) + 1)..Len(task'[t].log) :
                    task'[t].log[i].op \notin FlowOps]_vars
    /\ [][\A s \in Tasks :
            (task[s].kind = "stop" /\ task'[s] # task[s]) =>
                (cache' = cache /\ alive' = alive)]_vars

\* C14: the TTL of the cache is absolute per entry: an entry inserted at time
\* t is returned by no get later than t + TTL unless it was inserted again,
\* however many gets hit it in between.  A get that returns an entry stamps
\* it with the time of the get, so: no entry carries a stamp later than the
\* time of its last insert plus the TTL.
C14_TtlAbsolute ==
    \A i \in 1..Len(cache) : cache[i].at <= cache[i].born + CacheTtl

\* The entries of cache c that have not expired at time t
LiveEntries(c, t) == {c[i] : i \in {j \in 1..Len(c) : ~(c[j].at + CacheTtl < t)}}

KeysOf(entries) == {e.key : e \in entries}

\* The entry used (inserted or returned by a get) longest ago
LeastRecentlyUsed(entries) == CHOOSE e \in entries : \A f \in entries : e.at <= f.at

\* The call the cache has just served, as task 1 recorded it
LastCall == task[1].log[1]

\* C15: the cache never holds more than its capacity of 20 entries, at most
\* one per key; the insert of a new key into a cache full of unexpired
\* entries evicts exactly one entry, the one used least recently, where both
\* a get that returns an entry and an insert count as a use; an insert into
\* a cache that is not full, or of a key it holds, evicts none.
C15_CapacityAndLruEviction ==
    /\ [](/\ Len(cache) <= CacheCapacity
          /\ \A i, j \in 1..Len(cache) : cache[i].key = cache[j].key => i = j)
    /\ [][(now' = now + 1 /\ task'[1].log[1].op = "cache_insert") =>
            LET live == LiveEntries(cache, now)
                key == task'[1].log[1].att.url
                after == {cache'[i] : i \in 1..Len(cache')}
            IN /\ \E e \in after : e.key = key /\ e.at = now
               /\ IF key \notin KeysOf(live) /\ Cardinality(live) = CacheCapacity
                  THEN after = (live \ {LeastRecentlyUsed(live)})
                                 \cup {Entry(key, task'[1].got, now, now)}
                  ELSE after = {e \in live : e.key # key}
                                 \cup {Entry(key, task'[1].got, now, now)}]_vars
    /\ [][(now' = now + 1 /\ task'[1].log[1].op = "cache_get" /\ task'[1].log[1].ok) =>
            \E i \in 1..Len(cache') :
                /\ cache'[i].key = task'[1].log[1].att.url
                /\ cache'[i].at = now]_vars

\* A get of u1 made it the most recently used entry, u20 filled the cache,
\* and the insert of u21 evicted u2.
C15_Witness ==
    /\ task[1].log # <<>> /\ LastCall.op = "cache_insert"
    /\ LastCall.att.url = UrlNames[CacheCapacity + 1]
    /\ Len(cache) = CacheCapacity
    /\ UrlNames[1] \in CacheKeys(cache)
    /\ UrlNames[2] \notin CacheKeys(cache)
    /\ \E i \in 1..Len(cache) :
          cache[i].key = UrlNames[1] /\ cache[i].at > cache[i].born

\* The entry cache c holds for key
EntryOf(c, key) == c[CacheLookup(c, key)]

\* C16: a get of a URL whose entry is in the cache and within its TTL returns
\* a copy equal to the value of the most recent insert for that URL: an
\* insert leaves the inserted value under its key, a get returns the value
\* the cache holds and leaves it there, and the value held for a key changes
\* (or appears) only in an insert of that key, whatever becomes of the copies
\* the callers received.
C16_GetReturnsLastInsert ==
    /\ [][(now' = now + 1 /\ task'[1].log[1].op = "cache_insert") =>
            LET key == task'[1].log[1].att.url
            IN /\ key \in CacheKeys(cache')
               /\ EntryOf(cache', key).val = task'[1].got
               /\ EntryOf(cache', key).born = now]_vars
    /\ [][(now' = now + 1 /\ task'[1].log[1].op = "cache_get") =>
            LET key == task'[1].log[1].att.url
            IN (key \in CacheKeys(cache) /\ now <= EntryOf(cache, key).born + CacheTtl) =>
                 /\ task'[1].log[1].ok
                 /\ task'[1].got = EntryOf(cache, key).val
                 /\ key \in CacheKeys(cache')
                 /\ EntryOf(cache', key).val = EntryOf(cache, key).val
                 /\ EntryOf(cache', key).born = EntryOf(cache, key).born]_vars
    /\ [][\A key \in CacheKeys(cache') :
            (\/ key \notin CacheKeys(cache)
             \/ EntryOf(cache', key).val # EntryOf(cache, key).val
             \/ EntryOf(cache', key).born # EntryOf(cache, key).born) =>
                /\ now' = now + 1
                /\ task'[1].log[1].op = "cache_insert"
                /\ task'[1].log[1].att.url = key]_vars

\* u1, first inserted with the threshold brightness, was inserted again with
\* another image, and a get after a wait returns the second image.
C16_Witness ==
    /\ task[1].log # <<>> /\ LastCall.op = "cache_get" /\ LastCall.ok
    /\ LastCall.att.url = UrlNames[1]
    /\ task[1].got = Value(Image(UrlNames[1], Threshold + 1), Threshold + 1)
    /\ now > Prefilled + TickSeconds
    /\ Len(cache) > 1

\* C17: the cache memoizes every fetch: in every handler that has returned
\* normally, each successful download (which follows a cache miss) is
\* followed by an insert of the downloaded image under the attachment's URL,
\* on the announcement path, the auto-adjust path and the rendering path.
C17_DownloadFollowedByInsert ==
    \A t \in Tasks :
        LET r == task[t]
        IN (r.pc = "done" /\ r.result = "ok") =>
             \A i \in 1..Len(r.log) :
                 (r.log[i].op = "download" /\ r.log[i].ok) =>
                     \E j \in (i + 1)..Len(r.log) :
                         /\ r.log[j].op = "cache_insert"
                         /\ r.log[j].att.url = r.log[i].att.url
                         /\ r.log[j].lum = r.log[i].lum

\* The positions at which a handler waits for the network or the user: a
\* download, a message fetch, a send, a response or an edit, the modal.
IoWaitPcs ==
    {"ask_download", "ask_send", "dk_modal", "dk_modal_wait", "dk_modal_error",
     "dk_auto_fetch", "dk_auto_download", "dk_start_fetch", "dk_apology",
     "dk_ack", "dk_edit", "dk_edit_options", "dk_proc_download", "dk_deliver",
     "clear_ack", "clear_edit", "dispose_delete", "dispose_followup",
     "stop_update", "stop_delete"}

\* C18: the lock of the cache is never held across an I/O wait: in every
\* interleaving of the handler tasks, a task that waits for a download, a
\* message fetch, a send or an edit, or the modal (or that is over) does not
\* hold the lock; the lock is held only by one task at a time, and only by a
\* task inside ImageCache::get or ImageCache::insert.
C18_NoLockAcrossIo ==
    /\ \A t \in Tasks :
          /\ task[t].pc \in IoWaitPcs \cup {"idle", "done"} => ~task[t].holds
          /\ task[t].holds => task[t].pc \in CacheWaitPcs
    /\ \A s, t \in Tasks : (task[s].holds /\ task[t].holds) => s = t

\* One task waits for its download after a miss while the other holds the
\* lock it has just been granted.
C18_Witness ==
    \E s, t \in Tasks :
        /\ s # t
        /\ task[t].pc \in {"ask_download", "dk_proc_download"}
        /\ HasOp(task[t], "cache_get")
        /\ task[s].holds

\* A step of handler task t, whichever it is
HandlerStep(t) ==
    \/ cache_lock(t) \/ ask_cache_get(t) \/ ask_download(t) \/ ask_cache_insert(t)
    \/ ask_send_offer(t) \/ dk_modal_open(t)
    \/ (\E input \in PairInputs : dk_modal_submit(t, input))
    \/ dk_auto_fetch(t) \/ dk_auto_get(t) \/ dk_auto_download(t)
    \/ dk_start_fetch(t) \/ dk_apology(t) \/ dk_ack(t) \/ dk_edit(t) \/ dk_proc_get(t)
    \/ dk_proc_download(t) \/ dk_deliver(t) \/ stop_update(t) \/ stop_delete(t)

Running(t) == task[t].pc \notin {"idle", "done"}

EntriesFor(c, key) == {i \in 1..Len(c) : c[i].key = key}

\* C19: two new-attachment handlers for the same URL may both miss, both
\* download and both insert.  In every interleaving neither is ever stuck
\* (a running handler can take a step, or the task that holds the lock it
\* waits for can), every insert leaves exactly one entry for the URL, with
\* the value just inserted, no other step changes a cached value, and a get
\* started once an entry is there finds it, whole.
C19_RaceIsBenign ==
    /\ [](\A t \in Tasks :
            Running(t) =>
                \/ ENABLED HandlerStep(t)
                \/ \E s \in Tasks \ {t} : task[s].holds /\ ENABLED HandlerStep(s))
    /\ [][\A t \in Tasks :
            (task[t].pc = "ask_insert" /\ task[t].holds /\ task'[t] # task[t]) =>
                /\ Cardinality(EntriesFor(cache', task[t].att.url)) = 1
                /\ EntryOf(cache', task[t].att.url).val = task[t].got]_vars
    /\ [][(\A t \in Tasks : task'[t] # task[t] => task[t].pc # "ask_insert") =>
            \A key \in CacheKeys(cache) :
                /\ key \in CacheKeys(cache')
                /\ EntryOf(cache', key).val = EntryOf(cache, key).val]_vars
    /\ [][\A t \in Tasks :
            (/\ task[t].pc \in {"ask_get", "dk_auto_get", "dk_proc_get"}
             /\ task[t].holds /\ task'[t] # task[t]
             /\ task[t].att.url \in CacheKeys(cache)) =>
                /\ task'[t].log[Len(task'[t].log)].op \in {"cache_get", "apply_nord"}
                /\ \E i \in (Len(task[t].log) + 1)..Len(task'[t].log) :
                      task'[t].log[i].op = "cache_get" /\ task'[t].log[i].ok
                /\ task'[t].got = EntryOf(cache, task[t].att.url).val]_vars

\* Both handlers missed, downloaded different images and inserted; both
\* returned normally and the cache holds one entry, the second insert's.
C19_Witness ==
    /\ \A t \in Tasks :
          /\ task[t].kind = "message" /\ task[t].pc = "done" /\ task[t].result = "ok"
          /\ HasFailed(task[t], "cache_get")
          /\ HasOp(task[t], "cache_insert")
    /\ task[1].got # task[2].got
    /\ Len(cache) = 1
    /\ cache[1].val = task[2].got

IsFetch(e) == e.op = "measure" \/ (e.op = "cache_get" /\ e.ok)

HasFetch(r) == \E i \in 1..Len(r.log) : IsFetch(r.log[i])

\* The statistics the handler measured first: with auto_adjust set, those of
\* the auto-adjust step.
FirstMeasured(r) ==
    r.log[CHOOSE i \in 1..Len(r.log) :
              IsFetch(r.log[i]) /\ \A j \in 1..(i - 1) : ~IsFetch(r.log[j])].lum

\* C20: with auto_adjust set in the decoded options, the options used from
\* the auto-adjust step on, for the re-rendered controls and for the
\* transform, are exactly those recomputed from the statistics measured in
\* that step, with only start carried over from the token: every other
\* field, a background just entered in the modal included, is overwritten.
C20_AutoAdjustOverwrites ==
    \A t \in Tasks :
        LET r == task[t]
            recomputed == [from_image_information(FirstMeasured(r))
                              EXCEPT !.start = from_custom_id(r.token).start]
        IN (r.kind = "darken" /\ from_custom_id(r.token).auto_adjust /\ HasFetch(r)) =>
             /\ r.options = recomputed
             /\ \A i \in 1..Len(r.applied) : r.applied[i] = recomputed
             /\ (\E i \in 1..Len(r.log) :
                    r.log[i].op = "edit_response_wait" /\ r.log[i].ok) =>
                        r.resp.options = recomputed

\* A background entered in the modal, then auto-adjust, then the transform
\* with the recomputed options: the entered background is gone.
C20_Witness ==
    \E t \in Tasks :
        /\ task[t].kind = "darken" /\ task[t].pc = "done" /\ task[t].result = "ok"
        /\ from_custom_id(task[t].token).auto_adjust
        /\ from_custom_id(task[t].token).background_color = AskSentinel
        /\ \E i \in 1..Len(task[t].log) :
              task[t].log[i].op = "modal_submit" /\ task[t].log[i].ok
        /\ Len(task[t].applied) = 1
        /\ task[t].applied[1].background_color = NoColor
        /\ task[t].applied[1].start
        /\ task[t].resp.options = task[t].applied[1]

\* The requests that are an initial response to an interaction: the modal
\* (the response to the component interaction it opens on) and every
\* create_response.
InitialResponseOps ==
    {"modal_open", "create_response_apology", "create_response_error",
     "create_response_ack", "create_response_update"}

InitialResponses(r, on) ==
    {i \in 1..Len(r.log) : r.log[i].op \in InitialResponseOps /\ r.log[i].on = on}

\* C21: each interaction receives at most one initial response: in every run
\* of the darken handler, create_response (or the opening of the modal) is
\* issued at most once on the component interaction and at most once on the
\* modal interaction, also when the modal was opened and the subject message
\* then turns out to be gone.
C21_OneInitialResponse ==
    \A t \in Tasks :
        task[t].kind = "darken" =>
            /\ Cardinality(InitialResponses(task[t], "component")) <= 1
            /\ Cardinality(InitialResponses(task[t], "modal")) <= 1

\* C22: the attachments of a message authored by a bot are never inspected:
\* the handler of a message event whose author is a bot is over at once and
\* has taken no step at all, so no validation, no cache lookup, no download,
\* no cache insert and no offer message.
C22_BotMessagesIgnored ==
    \A t \in Tasks :
        (task[t].kind = "message" /\ Messages[task[t].msg].author_bot) =>
            /\ task[t].pc = "done" /\ task[t].result = "ok"
            /\ task[t].log = <<>>
            /\ task[t].checked = <<>>
            /\ task[t].resp = NoResponse

\* The bot's message carries an attachment that would pass the validation.
C22_Witness ==
    \E t \in Tasks :
        /\ task[t].kind = "message" /\ task[t].pc = "done"
        /\ Messages[task[t].msg].author_bot
        /\ Len(Messages[task[t].msg].attachments) > 0
        /\ image_check(Messages[task[t].msg].attachments[1])

====
